---- MODULE Spec2Model ----
(***************************************************************************)
(* Model of src/app.py, the MarketingPlan AI API: the context extractor,   *)
(* the square classifier, the plan parser with its fallback template bank, *)
(* and the request handlers over the two in-memory stores.                 *)
(*                                                                         *)
(* Python values are tagged records: a str is [kind |-> "str", s |-> ..],  *)
(* a list of str is [kind |-> "list", l |-> <<..>>].  Text is a TLA+       *)
(* string handled character by character (Len, SubSeq, \o).  A call that   *)
(* may raise returns [ok |-> TRUE, ..] or [ok |-> FALSE, exc |-> ..].      *)
(* The generated_at timestamp of a plan is not modelled.                   *)
(***************************************************************************)
EXTENDS Integers, Sequences, FiniteSets, TLC

VARIABLES
    api_key,          \* os.getenv("ANTHROPIC_API_KEY") is set
    plans_store,      \* plans_store: user id -> plan dict
    user_data_store,  \* user_data_store: user id -> user data dict
    inflight,         \* per handler slot: a generate-plan request awaiting the external call
    last_response,    \* the response most recently returned to a caller
    history,          \* per user id: the plan most recently written to plans_store
    arg,              \* input of the pure function under check
    res               \* its result

vars == <<api_key, plans_store, user_data_store, inflight, last_response, history, arg, res>>

sysvars == <<api_key, plans_store, user_data_store, inflight, last_response, history>>

(***************************************************************************)
(* Text primitives                                                         *)
(***************************************************************************)
PyStr(s) == [kind |-> "str", s |-> s]

PyList(l) == [kind |-> "list", l |-> l]

Whitespace == {" ", "\n", "\t", "\r"}

UpperAlpha == "ABCDEFGHIJKLMNOPQRSTUVWXYZ"

LowerAlpha == "abcdefghijklmnopqrstuvwxyz"

CharAt(s, i) == SubSeq(s, i, i)

startswith(s, p) == Len(s) >= Len(p) /\ SubSeq(s, 1, Len(p)) = p

endswith(s, p) == Len(s) >= Len(p) /\ SubSeq(s, Len(s) - Len(p) + 1, Len(s)) = p

\* Python's `k in s` on strings
Contains(s, k) == \E i \in 1..(Len(s) - Len(k) + 1) : SubSeq(s, i, i + Len(k) - 1) = k

RECURSIVE lstrip(_)
lstrip(s) == IF Len(s) > 0 /\ CharAt(s, 1) \in Whitespace
             THEN lstrip(SubSeq(s, 2, Len(s)))
             ELSE s

RECURSIVE rstrip(_)
rstrip(s) == IF Len(s) > 0 /\ CharAt(s, Len(s)) \in Whitespace
             THEN rstrip(SubSeq(s, 1, Len(s) - 1))
             ELSE s

strip(s) == rstrip(lstrip(s))

LowerChar(c) == IF \E i \in 1..Len(UpperAlpha) : CharAt(UpperAlpha, i) = c
                THEN CharAt(LowerAlpha, CHOOSE i \in 1..Len(UpperAlpha) : CharAt(UpperAlpha, i) = c)
                ELSE c

RECURSIVE lower(_)
lower(s) == IF Len(s) = 0 THEN s
            ELSE LowerChar(CharAt(s, 1)) \o lower(SubSeq(s, 2, Len(s)))

(***************************************************************************)
(* determine_square_from_question                                          *)
(***************************************************************************)
SquareKeywords == <<
    <<"target", "demographics", "customer", "pain-points", "goals", "buying-behavior", "sources">>,
    <<"problem-solved", "unique-advantages", "benefits", "emotional", "proof-points">>,
    <<"marketing-channels", "digital-marketing", "content-creation">>,
    <<"lead-generation", "lead-magnets", "website-optimization">>,
    <<"follow-up", "email-marketing", "educational-content", "relationship-timeline">>,
    <<"sales-process", "objections", "pricing-strategy", "conversion-rate">>,
    <<"delivery-method", "onboarding", "customer-support", "feedback">>,
    <<"repeat-business", "upsell", "retention", "customer-value">>,
    <<"referrals", "referral-process", "incentives", "advocacy">> >>

\* any(keyword in question_id_lower for keyword in [...]) for square n
AnyKeyword(question_id_lower, n) ==
    \E j \in 1..Len(SquareKeywords[n]) : Contains(question_id_lower, SquareKeywords[n][j])

\* the classifier without the lower-casing of the identifier
determine_square_no_lower(question_id) ==
    IF AnyKeyword(question_id, 1) THEN 1
    ELSE IF AnyKeyword(question_id, 2) THEN 2
    ELSE IF AnyKeyword(question_id, 3) THEN 3
    ELSE IF AnyKeyword(question_id, 4) THEN 4
    ELSE IF AnyKeyword(question_id, 5) THEN 5
    ELSE IF AnyKeyword(question_id, 6) THEN 6
    ELSE IF AnyKeyword(question_id, 7) THEN 7
    ELSE IF AnyKeyword(question_id, 8) THEN 8
    ELSE IF AnyKeyword(question_id, 9) THEN 9
    ELSE 0

determine_square_from_question(question_id) ==
    LET question_id_lower == lower(question_id)
    IN  IF AnyKeyword(question_id_lower, 1) THEN 1
        ELSE IF AnyKeyword(question_id_lower, 2) THEN 2
        ELSE IF AnyKeyword(question_id_lower, 3) THEN 3
        ELSE IF AnyKeyword(question_id_lower, 4) THEN 4
        ELSE IF AnyKeyword(question_id_lower, 5) THEN 5
        ELSE IF AnyKeyword(question_id_lower, 6) THEN 6
        ELSE IF AnyKeyword(question_id_lower, 7) THEN 7
        ELSE IF AnyKeyword(question_id_lower, 8) THEN 8
        ELSE IF AnyKeyword(question_id_lower, 9) THEN 9
        ELSE 0

(***************************************************************************)
(* extract_business_context                                                *)
(***************************************************************************)
NotSpecified == PyStr("Not specified")

DefaultContext == [
    industry           |-> NotSpecified,
    business_model     |-> NotSpecified,
    company_size       |-> NotSpecified,
    challenges         |-> PyList(<< >>),
    years_in_operation |-> NotSpecified,
    geographic_scope   |-> NotSpecified,
    marketing_maturity |-> NotSpecified,
    marketing_budget   |-> NotSpecified,
    time_availability  |-> NotSpecified,
    business_goals     |-> PyList(<< >>) ]

\* answer if isinstance(answer, list) else [answer]
AsList(answer) == IF answer.kind = "list" THEN answer ELSE PyList(<<answer.s>>)

\* ExtractStep filing every unrecognised identifier under business_goals
ExtractStep_catch_all(context, response) ==
    LET question_id == lower(response.question_id)
        answer == response.answer
    IN  IF question_id = "industry" THEN [context EXCEPT !.industry = answer]
        ELSE IF question_id = "business-model" THEN [context EXCEPT !.business_model = answer]
        ELSE IF question_id = "company-size" THEN [context EXCEPT !.company_size = answer]
        ELSE IF question_id = "years-in-operation" THEN [context EXCEPT !.years_in_operation = answer]
        ELSE IF question_id = "geographic-scope" THEN [context EXCEPT !.geographic_scope = answer]
        ELSE IF question_id = "primary-challenges" THEN [context EXCEPT !.challenges = AsList(answer)]
        ELSE IF question_id = "marketing-maturity" THEN [context EXCEPT !.marketing_maturity = answer]
        ELSE IF question_id = "marketing-budget" THEN [context EXCEPT !.marketing_budget = answer]
        ELSE IF question_id = "time-availability" THEN [context EXCEPT !.time_availability = answer]
        ELSE IF Contains(question_id, "industry") THEN [context EXCEPT !.industry = answer]
        ELSE IF Contains(question_id, "model") THEN [context EXCEPT !.business_model = answer]
        ELSE IF Contains(question_id, "size") THEN [context EXCEPT !.company_size = answer]
        ELSE IF Contains(question_id, "challenge")
             THEN [context EXCEPT !.challenges = PyList(context.challenges.l \o AsList(answer).l)]
        ELSE [context EXCEPT !.business_goals = AsList(answer)]

\* one iteration of the loop over responses
ExtractStep(context, response) ==
    LET question_id == lower(response.question_id)
        answer == response.answer
    IN  IF question_id = "industry" THEN [context EXCEPT !.industry = answer]
        ELSE IF question_id = "business-model" THEN [context EXCEPT !.business_model = answer]
        ELSE IF question_id = "company-size" THEN [context EXCEPT !.company_size = answer]
        ELSE IF question_id = "years-in-operation" THEN [context EXCEPT !.years_in_operation = answer]
        ELSE IF question_id = "geographic-scope" THEN [context EXCEPT !.geographic_scope = answer]
        ELSE IF question_id = "primary-challenges" THEN [context EXCEPT !.challenges = AsList(answer)]
        ELSE IF question_id = "marketing-maturity" THEN [context EXCEPT !.marketing_maturity = answer]
        ELSE IF question_id = "marketing-budget" THEN [context EXCEPT !.marketing_budget = answer]
        ELSE IF question_id = "time-availability" THEN [context EXCEPT !.time_availability = answer]
        ELSE IF question_id = "business-goals" THEN [context EXCEPT !.business_goals = AsList(answer)]
        ELSE IF Contains(question_id, "industry") THEN [context EXCEPT !.industry = answer]
        ELSE IF Contains(question_id, "model") THEN [context EXCEPT !.business_model = answer]
        ELSE IF Contains(question_id, "size") THEN [context EXCEPT !.company_size = answer]
        ELSE IF Contains(question_id, "challenge")
             THEN [context EXCEPT !.challenges = PyList(context.challenges.l \o AsList(answer).l)]
        ELSE context

RECURSIVE ExtractLoop(_, _, _)
ExtractLoop(context, responses, i) ==
    IF i > Len(responses) THEN context
    ELSE ExtractLoop(ExtractStep(context, responses[i]), responses, i + 1)

extract_business_context(responses) == ExtractLoop(DefaultContext, responses, 1)

(***************************************************************************)
(* pydantic models                                                         *)
(***************************************************************************)
Ok(v) == [ok |-> TRUE, value |-> v]

Raise(e) == [ok |-> FALSE, exc |-> e]

\* repr of a list of str, as str() and f-strings render it
RECURSIVE ReprItems(_, _)
ReprItems(l, i) ==
    IF i > Len(l) THEN ""
    ELSE (IF i > 1 THEN ", " ELSE "") \o "'" \o l[i] \o "'" \o ReprItems(l, i + 1)

\* str(v), the rendering of a value inside an f-string
Format(v) == IF v.kind = "str" THEN v.s ELSE "[" \o ReprItems(v.l, 1) \o "]"

ScalarFields == {"industry", "business_model", "company_size", "years_in_operation",
                 "geographic_scope", "marketing_maturity", "marketing_budget", "time_availability"}

ListFields == {"challenges", "business_goals"}

\* BusinessContext(industry=..., ...): str fields reject a list, list fields reject a str
BusinessContext(business_context) ==
    IF /\ \A f \in ScalarFields : business_context[f].kind = "str"
       /\ \A f \in ListFields : business_context[f].kind = "list"
    THEN Ok(business_context)
    ELSE Raise("ValidationError")

(***************************************************************************)
(* generate_fallback_plan                                                  *)
(***************************************************************************)
square_templates(i, business_context) ==
    IF i = 1 THEN [
        title |-> "Target Market & Customer Avatar",
        summary |-> "Define your ideal customers in the " \o Format(business_context.industry)
                    \o " industry with a focus on " \o Format(business_context.business_model) \o ".",
        key_points |-> <<
            "Operating in " \o Format(business_context.industry) \o " sector",
            "Business model: " \o Format(business_context.business_model),
            "Company size: " \o Format(business_context.company_size),
            "Customer segmentation is critical for targeted marketing" >>,
        recommendations |-> <<
            "Create detailed buyer personas with demographics and psychographics",
            "Conduct customer interviews to validate assumptions",
            "Analyze competitor customer bases for market insights",
            "Use Google Analytics and social media insights for data" >> ]
    ELSE IF i = 2 THEN [
        title |-> "Value Proposition & Messaging",
        summary |-> "Develop compelling messages that clearly communicate your unique value and resonate with your target market's needs.",
        key_points |-> <<
            "Need clear differentiation from competitors",
            "Message must address specific customer pain points",
            "Brand personality should align with target audience",
            "Consistent messaging across all touchpoints is essential" >>,
        recommendations |-> <<
            "Test different value propositions with target customers",
            "Create a comprehensive brand style and voice guide",
            "Develop elevator pitches for different scenarios",
            "A/B test messaging across marketing channels" >> ]
    ELSE IF i = 3 THEN [
        title |-> "Media Channels & Reach",
        summary |-> "Select and optimize the right marketing channels where your target audience is most active and engaged.",
        key_points |-> <<
            "Multi-channel approach increases reach and frequency",
            "Content strategy must align with channel characteristics",
            "Consistent publishing schedule builds audience trust",
            "Channel selection based on audience behavior data" >>,
        recommendations |-> <<
            "Start with 2-3 channels and master them first",
            "Create a content calendar with channel-specific content",
            "Repurpose content across channels with platform optimization",
            "Track performance metrics for each channel monthly" >> ]
    ELSE IF i = 4 THEN [
        title |-> "Lead Capture & Acquisition",
        summary |-> "Implement systems to attract and capture qualified leads through strategic touchpoints and compelling offers.",
        key_points |-> <<
            "Lead magnets must provide genuine value to prospects",
            "Multiple capture points increase conversion opportunities",
            "Landing page optimization is crucial for conversions",
            "Lead quality is more important than quantity" >>,
        recommendations |-> <<
            "Create industry-specific lead magnets (ebooks, tools, templates)",
            "Optimize landing pages with clear value propositions",
            "Implement progressive profiling to gather lead information",
            "Set up lead scoring to prioritize follow-up efforts" >> ]
    ELSE IF i = 5 THEN [
        title |-> "Lead Nurturing & Relationship Building",
        summary |-> "Develop systematic approaches to educate and engage leads through their buyer journey until they're sales-ready.",
        key_points |-> <<
            "Automated email sequences provide consistent touchpoints",
            "Educational content builds trust and authority",
            "Personalization increases engagement rates significantly",
            "Multi-touch nurturing campaigns improve conversion rates" >>,
        recommendations |-> <<
            "Create email drip campaigns based on lead behavior",
            "Segment leads by interest, industry, or buying stage",
            "Provide valuable educational content consistently",
            "Use marketing automation to scale personalization" >> ]
    ELSE IF i = 6 THEN [
        title |-> "Sales Conversion & Closing",
        summary |-> "Optimize your sales process to effectively convert qualified leads into paying customers with clear systems and follow-up.",
        key_points |-> <<
            "Clear sales process reduces friction and confusion",
            "Follow-up systems prevent leads from falling through cracks",
            "Objection handling preparation improves close rates",
            "Sales and marketing alignment is crucial for success" >>,
        recommendations |-> <<
            "Document and standardize your sales process steps",
            "Create objection handling scripts and resources",
            "Implement CRM system for lead tracking and follow-up",
            "Establish clear handoff process between marketing and sales" >> ]
    ELSE IF i = 7 THEN [
        title |-> "Customer Experience & Delivery",
        summary |-> "Ensure exceptional customer experience and service delivery that exceeds expectations and builds loyalty.",
        key_points |-> <<
            "First impressions set the tone for entire relationship",
            "Consistent delivery builds trust and reduces churn",
            "Customer feedback loops improve service quality",
            "Proactive communication prevents issues and builds confidence" >>,
        recommendations |-> <<
            "Create customer onboarding process with clear expectations",
            "Implement regular check-ins and progress updates",
            "Establish customer feedback collection and response system",
            "Document service delivery standards for consistency" >> ]
    ELSE IF i = 8 THEN [
        title |-> "Lifetime Value & Growth",
        summary |-> "Maximize customer lifetime value through retention strategies, upselling, and expanding relationships over time.",
        key_points |-> <<
            "Retention costs significantly less than acquisition",
            "Upselling to existing customers has higher success rates",
            "Customer success directly impacts lifetime value",
            "Regular value delivery maintains customer relationships" >>,
        recommendations |-> <<
            "Create customer success programs focused on outcomes",
            "Develop upsell and cross-sell opportunity mapping",
            "Implement customer health scoring and intervention triggers",
            "Establish regular business reviews with key accounts" >> ]
    ELSE IF i = 9 THEN [
        title |-> "Referral System & Advocacy",
        summary |-> "Build systematic approaches to generate referrals and turn satisfied customers into active brand advocates.",
        key_points |-> <<
            "Satisfied customers are often willing to refer but need prompting",
            "Referral systems require clear processes and incentives",
            "Customer testimonials and case studies build social proof",
            "Word-of-mouth marketing has highest trust and conversion rates" >>,
        recommendations |-> <<
            "Create formal referral program with clear incentives",
            "Systematically collect customer testimonials and reviews",
            "Develop case studies showcasing customer success stories",
            "Make it easy for customers to share and recommend your business" >> ]
    ELSE [title |-> "", summary |-> "", key_points |-> << >>, recommendations |-> << >>]

\* for i in range(1, 10): squares[i] = MarketingSquare(**square_templates[i])
FallbackSquares(business_context) == [i \in 1..9 |-> square_templates(i, business_context)]

MarketingPlan(context, squares) == [business_context |-> context, squares |-> squares]

generate_fallback_plan(business_context) ==
    LET bc == BusinessContext(business_context)
    IN  IF bc.ok THEN Ok(MarketingPlan(bc.value, FallbackSquares(business_context)))
        ELSE bc

(***************************************************************************)
(* JSON text.  A decoded value is a str, a list, an int, null, or a dict   *)
(* kept as the ordered sequence of its <<key, value>> items.               *)
(***************************************************************************)
JStr(s) == [kind |-> "str", s |-> s]

JList(l) == [kind |-> "list", l |-> l]

JInt(n) == [kind |-> "int", n |-> n]

JNull == [kind |-> "null"]

JDict(items) == [kind |-> "dict", items |-> items]

Digits == "0123456789"

RECURSIVE NatToStr(_)
NatToStr(n) == IF n < 10 THEN CharAt(Digits, n + 1)
               ELSE NatToStr(n \div 10) \o CharAt(Digits, (n % 10) + 1)

\* the text of a decoded value
RECURSIVE json_dumps(_), DumpList(_, _), DumpItems(_, _)
json_dumps(v) ==
    CASE v.kind = "str"  -> "\"" \o v.s \o "\""
      [] v.kind = "int"  -> NatToStr(v.n)
      [] v.kind = "null" -> "null"
      [] v.kind = "list" -> "[" \o DumpList(v.l, 1) \o "]"
      [] v.kind = "dict" -> "{" \o DumpItems(v.items, 1) \o "}"

DumpList(l, i) ==
    IF i > Len(l) THEN ""
    ELSE (IF i > 1 THEN ", " ELSE "") \o json_dumps(l[i]) \o DumpList(l, i + 1)

DumpItems(items, i) ==
    IF i > Len(items) THEN ""
    ELSE (IF i > 1 THEN ", " ELSE "") \o "\"" \o items[i][1] \o "\": "
         \o json_dumps(items[i][2]) \o DumpItems(items, i + 1)

\* d.get(key, default)
DictGet(d, key, default) ==
    IF \E i \in 1..Len(d.items) : d.items[i][1] = key
    THEN d.items[CHOOSE i \in 1..Len(d.items) : d.items[i][1] = key][2]
    ELSE default

\* int(s) for a str: surrounding whitespace, an optional sign, decimal digits
DigitValue(c) == (CHOOSE i \in 1..10 : CharAt(Digits, i) = c) - 1

IsDigit(c) == \E i \in 1..10 : CharAt(Digits, i) = c

RECURSIVE DigitsValue(_, _)
DigitsValue(s, acc) ==
    IF Len(s) = 0 THEN acc
    ELSE DigitsValue(SubSeq(s, 2, Len(s)), acc * 10 + DigitValue(CharAt(s, 1)))

int(s) ==
    LET t == strip(s)
        signed == Len(t) > 0 /\ CharAt(t, 1) \in {"+", "-"}
        digits == IF signed THEN SubSeq(t, 2, Len(t)) ELSE t
    IN  IF Len(digits) > 0 /\ \A i \in 1..Len(digits) : IsDigit(CharAt(digits, i))
        THEN Ok(IF signed /\ CharAt(t, 1) = "-" THEN 0 - DigitsValue(digits, 0)
                ELSE DigitsValue(digits, 0))
        ELSE Raise("ValueError")

(***************************************************************************)
(* The response documents the external call is taken to return.            *)
(***************************************************************************)
WellFormedSquare(n) == JDict(<<
    <<"title", JStr("Title " \o NatToStr(n))>>,
    <<"summary", JStr("Summary " \o NatToStr(n))>>,
    <<"key_points", JList(<<JStr("point b" \o NatToStr(n)), JStr("point a")>>)>>,
    <<"recommendations", JList(<<JStr("rec " \o NatToStr(n)), JStr("rec z"), JStr("rec a")>>)>> >>)

SquaresDoc(items) == JDict(<< <<"squares", JDict(items)>> >>)

KeyedSquares(keys) == [i \in 1..Len(keys) |-> <<keys[i], WellFormedSquare(i)>>]

NineKeys == <<"1", "2", "3", "4", "5", "6", "7", "8", "9">>

JsonDocs == <<
    SquaresDoc(KeyedSquares(NineKeys)),
    SquaresDoc(KeyedSquares(<<"9", "8", "7", "6", "5", "4", "3", "2", "1">>)),
    SquaresDoc(KeyedSquares(<<"2", "5">>)),
    SquaresDoc(KeyedSquares(<<"0", "10">>)),
    SquaresDoc(KeyedSquares(<<"1", " 01 ">>)),
    SquaresDoc(KeyedSquares(<<"1", "x">>)),
    SquaresDoc(<< <<"3", JDict(<< <<"title", JStr("Only a title")>> >>)>>,
                  <<"4", JDict(<< <<"key_points", JList(<<JStr("only points")>>)>> >>)>> >>),
    SquaresDoc(<< <<"1", JStr("not an object")>> >>),
    SquaresDoc(<< <<"1", JDict(<< <<"title", JList(<<JStr("a")>>)>> >>)>> >>),
    SquaresDoc(<< <<"1", JDict(<< <<"key_points", JStr("not a list")>> >>)>> >>),
    SquaresDoc(<< <<"1", JDict(<< <<"summary", JNull>> >>)>> >>),
    SquaresDoc(<< >>),
    JDict(<< <<"squares", JList(<< >>)>> >>),
    JDict(<< <<"squares", JNull>> >>),
    JDict(<< <<"plan", JStr("none")>> >>),
    JList(<<JInt(1)>>),
    JNull >>

JsonTexts == [d \in 1..Len(JsonDocs) |-> json_dumps(JsonDocs[d])]

\* json.loads: the document whose text this is, JSONDecodeError for any other text
json_loads(text) ==
    LET t == strip(text)
        hits == {d \in 1..Len(JsonDocs) : JsonTexts[d] = t}
    IN  IF hits = {} THEN Raise("JSONDecodeError")
        ELSE Ok(JsonDocs[CHOOSE d \in hits : TRUE])

(***************************************************************************)
(* parse_ai_response_to_plan                                               *)
(***************************************************************************)
\* the three-backquote code fence (a TLA+ string cannot hold a backquote)
Fence == "'''"

IsStrList(v) == v.kind = "list" /\ \A i \in 1..Len(v.l) : v.l[i].kind = "str"

\* MarketingSquare(title=.., summary=.., key_points=.., recommendations=..)
MarketingSquare(title, summary, key_points, recommendations) ==
    IF title.kind = "str" /\ summary.kind = "str" /\ IsStrList(key_points) /\ IsStrList(recommendations)
    THEN Ok([title           |-> title.s,
             summary         |-> summary.s,
             key_points      |-> [i \in 1..Len(key_points.l) |-> key_points.l[i].s],
             recommendations |-> [i \in 1..Len(recommendations.l) |-> recommendations.l[i].s]])
    ELSE Raise("ValidationError")

\* BuildSquare with key_points and recommendations exchanged
BuildSquare_swapped(square_id, square_data) ==
    IF square_data.kind # "dict" THEN Raise("AttributeError")
    ELSE MarketingSquare(DictGet(square_data, "title", JStr("Square " \o square_id)),
                         DictGet(square_data, "summary", JStr("Summary not available")),
                         DictGet(square_data, "recommendations", JList(<< >>)),
                         DictGet(square_data, "key_points", JList(<< >>)))

\* BuildSquare reading the sub-fields with square_data[...]: a missing one raises KeyError
BuildSquare_subscript(square_id, square_data) ==
    IF square_data.kind # "dict" THEN Raise("AttributeError")
    ELSE IF Len(square_data.items) < 4 THEN Raise("KeyError")
    ELSE MarketingSquare(DictGet(square_data, "title", JStr("Square " \o square_id)),
                         DictGet(square_data, "summary", JStr("Summary not available")),
                         DictGet(square_data, "key_points", JList(<< >>)),
                         DictGet(square_data, "recommendations", JList(<< >>)))

\* the right-hand side of the assignment in the loop body
BuildSquare(square_id, square_data) ==
    IF square_data.kind # "dict" THEN Raise("AttributeError")
    ELSE MarketingSquare(DictGet(square_data, "title", JStr("Square " \o square_id)),
                         DictGet(square_data, "summary", JStr("Summary not available")),
                         DictGet(square_data, "key_points", JList(<< >>)),
                         DictGet(square_data, "recommendations", JList(<< >>)))

\* for square_id, square_data in ....items(): squares[int(square_id)] = MarketingSquare(...)
RECURSIVE SquaresLoop(_, _, _)
SquaresLoop(squares, items, i) ==
    IF i > Len(items) THEN Ok(squares)
    ELSE LET square == BuildSquare(items[i][1], items[i][2])
             key == int(items[i][1])
         IN  IF ~square.ok THEN square
             ELSE IF ~key.ok THEN key
             ELSE SquaresLoop((key.value :> square.value) @@ squares, items, i + 1)

\* CleanContent without the case of a fence followed by json
CleanContent_bare_fence_only(ai_content) ==
    LET c0 == strip(ai_content)
        c2 == IF startswith(c0, Fence) THEN SubSeq(c0, 4, Len(c0)) ELSE c0
        c3 == IF endswith(c2, Fence) THEN SubSeq(c2, 1, Len(c2) - 3) ELSE c2
    IN  strip(c3)

\* the markdown cleaning at the head of the try block
CleanContent(ai_content) ==
    LET c0 == strip(ai_content)
        c1 == IF startswith(c0, Fence \o "json") THEN SubSeq(c0, 8, Len(c0)) ELSE c0
        c2 == IF startswith(c1, Fence) THEN SubSeq(c1, 4, Len(c1)) ELSE c1
        c3 == IF endswith(c2, Fence) THEN SubSeq(c2, 1, Len(c2) - 3) ELSE c2
    IN  strip(c3)

\* ParseTry filling the squares the response lacks from the fallback templates
ParseTry_fill_missing(ai_content, business_context) ==
    LET parsed_content == json_loads(CleanContent(ai_content))
    IN  IF ~parsed_content.ok THEN parsed_content
        ELSE IF parsed_content.value.kind # "dict" THEN Raise("AttributeError")
        ELSE LET sq == DictGet(parsed_content.value, "squares", JDict(<< >>))
             IN  IF sq.kind # "dict" THEN Raise("AttributeError")
                 ELSE LET squares == SquaresLoop(<< >>, sq.items, 1)
                          bc == BusinessContext(business_context)
                      IN  IF ~squares.ok THEN squares
                          ELSE IF ~bc.ok THEN bc
                          ELSE Ok(MarketingPlan(bc.value,
                                      squares.value @@ FallbackSquares(business_context)))

\* the try block: any exception it raises is caught by one of the handlers
ParseTry(ai_content, business_context) ==
    LET parsed_content == json_loads(CleanContent(ai_content))
    IN  IF ~parsed_content.ok THEN parsed_content
        ELSE IF parsed_content.value.kind # "dict" THEN Raise("AttributeError")
        ELSE LET sq == DictGet(parsed_content.value, "squares", JDict(<< >>))
             IN  IF sq.kind # "dict" THEN Raise("AttributeError")
                 ELSE LET squares == SquaresLoop(<< >>, sq.items, 1)
                          bc == BusinessContext(business_context)
                      IN  IF ~squares.ok THEN squares
                          ELSE IF ~bc.ok THEN bc
                          ELSE Ok(MarketingPlan(bc.value, squares.value))

parse_ai_response_to_plan(ai_content, business_context) ==
    LET attempt == ParseTry(ai_content, business_context)
    IN  IF attempt.ok THEN attempt
        ELSE generate_fallback_plan(business_context)

(***************************************************************************)
(* Requests and external outcomes                                          *)
(***************************************************************************)
\* concurrent generate-plan requests that can be awaiting the external call
NumHandlers == 2

Handlers == 1..NumHandlers

UserIds == {"u1", "u2"}

QuestionnaireResponse(question_id, answer) == [question_id |-> question_id, answer |-> answer]

\* the request bodies (responses) submitted to generate-plan
RequestResponses == {
    <<QuestionnaireResponse("industry", PyStr("Retail")),
      QuestionnaireResponse("marketing-budget", PyStr("Low"))>>,
    <<QuestionnaireResponse("industry", PyList(<<"Retail", "Food">>))>> }

\* what client.messages.create does: raise, or return a text
\* no call is made: get_anthropic_client() returned None
NotCalled == [kind |-> "no client"]

CallFailed == [kind |-> "failed"]

CallText(text) == [kind |-> "text", text |-> text]

ExternalOutcomes == {
    CallFailed,
    CallText("I cannot produce a plan."),
    CallText(Fence \o "json\n" \o JsonTexts[1] \o "\n" \o Fence),
    CallText(JsonTexts[3]) }

UserDataInputs == {[id |-> "u1", current_square |-> 1]}

Idle == [pc |-> "idle"]

NoResponse == [op |-> "none"]

NoCall == [fn |-> "none"]

(***************************************************************************)
(* generate_claude_plan, split at the external call                        *)
(***************************************************************************)
\* get_anthropic_client() returns None
NoClient == ~api_key

\* from the return of client.messages.create to the return of generate_claude_plan
AfterCall(outcome, business_context) ==
    IF outcome.kind = "failed" THEN generate_fallback_plan(business_context)
    ELSE LET structured_plan == parse_ai_response_to_plan(outcome.text, business_context)
         IN  IF structured_plan.ok THEN structured_plan
             ELSE generate_fallback_plan(business_context)

\* ai_plan.dict()
PlanDict(ai_plan) == [business_context |-> ai_plan.business_context, squares |-> ai_plan.squares]

\* a put that keeps the plan already stored (setdefault)
StorePut_keep_existing(store, user_id, plan) ==
    [u \in (DOMAIN store) \cup {user_id} |-> IF u \in DOMAIN store THEN store[u] ELSE plan]

\* a store write that drops every other entry
StorePut_only_entry(store, user_id, plan) == [u \in {user_id} |-> plan]

\* a store write that updates the stored plan in place, keeping the squares
\* of the old plan that the new one lacks
StorePut_merge(store, user_id, plan) ==
    [u \in (DOMAIN store) \cup {user_id} |->
        IF u # user_id THEN store[u]
        ELSE IF u \in DOMAIN store /\ "squares" \in DOMAIN plan
             THEN [plan EXCEPT !.squares = @ @@ store[u].squares]
             ELSE plan]

\* plans_store[request.user_id] = ai_plan.dict()
StorePut(store, user_id, plan) == [u \in (DOMAIN store) \cup {user_id} |->
                                      IF u = user_id THEN plan ELSE store[u]]

\* the tail of generate_marketing_plan: store and return the plan, or answer 500
Finish(user_id, responses, external, calls, ai_plan) ==
    IF ai_plan.ok
    THEN /\ plans_store' = StorePut(plans_store, user_id, PlanDict(ai_plan.value))
         /\ history' = (user_id :> PlanDict(ai_plan.value)) @@ history
         /\ last_response' = [op |-> "generate", user_id |-> user_id, status |-> 200,
                              body |-> ai_plan.value, responses |-> responses,
                              external |-> external, calls |-> calls]
    ELSE /\ UNCHANGED <<plans_store, history>>
         /\ last_response' = [op |-> "generate", user_id |-> user_id, status |-> 500,
                              body |-> "Failed to generate plan", responses |-> responses,
                              external |-> external, calls |-> calls]

(***************************************************************************)
(* Handlers                                                                *)
(***************************************************************************)
\* POST /api/generate-plan up to the external call (the whole handler when there is no client)
generate_marketing_plan(h, user_id, responses) ==
    /\ inflight[h].pc = "idle"
    /\ LET business_context == extract_business_context(responses)
       IN  IF NoClient
           THEN /\ Finish(user_id, responses, NotCalled, 0, generate_fallback_plan(business_context))
                /\ UNCHANGED inflight
           ELSE /\ inflight' = [inflight EXCEPT ![h] = [pc |-> "calling", user_id |-> user_id,
                                    responses |-> responses,
                                    business_context |-> business_context, calls |-> 1]]
                /\ UNCHANGED <<plans_store, history, last_response>>
    /\ UNCHANGED <<api_key, user_data_store, arg, res>>

\* the external call returns or raises, and the handler runs to its end
generate_claude_plan(h, outcome) ==
    /\ inflight[h].pc = "calling"
    /\ Finish(inflight[h].user_id, inflight[h].responses, outcome, inflight[h].calls,
              AfterCall(outcome, inflight[h].business_context))
    /\ inflight' = [inflight EXCEPT ![h] = Idle]
    /\ UNCHANGED <<api_key, user_data_store, arg, res>>

\* a get that answers 200 for an absent identifier
get_marketing_plan_no_404(user_id) ==
    /\ last_response' = [op |-> "get", user_id |-> user_id, status |-> 200,
                         body |-> IF user_id \in DOMAIN plans_store THEN plans_store[user_id]
                                  ELSE "null"]
    /\ UNCHANGED <<api_key, plans_store, user_data_store, inflight, history, arg, res>>

\* GET /api/plan/{user_id}
get_marketing_plan(user_id) ==
    /\ last_response' = IF user_id \notin DOMAIN plans_store
                        THEN [op |-> "get", user_id |-> user_id, status |-> 404,
                              body |-> "Marketing plan not found"]
                        ELSE [op |-> "get", user_id |-> user_id, status |-> 200,
                              body |-> plans_store[user_id]]
    /\ UNCHANGED <<api_key, plans_store, user_data_store, inflight, history, arg, res>>

\* POST /api/save-response
save_response(response) ==
    /\ last_response' = [op |-> "save_response", user_id |-> "", status |-> 200,
                         body |-> response.question_id]
    /\ UNCHANGED <<api_key, plans_store, user_data_store, inflight, history, arg, res>>

\* POST /api/save-user-data
save_user_data(user_data) ==
    /\ user_data_store' = StorePut(user_data_store, user_data.id, user_data)
    /\ last_response' = [op |-> "save_user_data", user_id |-> user_data.id, status |-> 200,
                         body |-> "User data saved successfully"]
    /\ UNCHANGED <<api_key, plans_store, inflight, history, arg, res>>

\* GET /api/user-data/{user_id}
get_user_data(user_id) ==
    /\ last_response' = IF user_id \notin DOMAIN user_data_store
                        THEN [op |-> "get_user_data", user_id |-> user_id, status |-> 404,
                              body |-> "User data not found"]
                        ELSE [op |-> "get_user_data", user_id |-> user_id, status |-> 200,
                              body |-> user_data_store[user_id]]
    /\ UNCHANGED <<api_key, plans_store, user_data_store, inflight, history, arg, res>>

Init ==
    /\ api_key \in BOOLEAN
    /\ plans_store = << >>
    /\ user_data_store = << >>
    /\ inflight = [h \in Handlers |-> Idle]
    /\ last_response = NoResponse
    /\ history = << >>
    /\ arg = NoCall
    /\ res = NoCall

Next ==
    \/ \E h \in Handlers, u \in UserIds, r \in RequestResponses : generate_marketing_plan(h, u, r)
    \/ \E h \in Handlers, o \in ExternalOutcomes : generate_claude_plan(h, o)
    \/ \E u \in UserIds : get_marketing_plan(u)
    \/ \E r \in {QuestionnaireResponse("industry", PyStr("Retail"))} : save_response(r)
    \/ \E d \in UserDataInputs : save_user_data(d)
    \/ \E u \in UserIds : get_user_data(u)

Spec == Init /\ [][Next]_vars

(***************************************************************************)
(* The pure functions, applied to inputs drawn by the initial state        *)
(***************************************************************************)
\* length of the answer lists given to extract_business_context
MaxResponses == 2

Pending == [pending |-> TRUE]

SystemAtRest ==
    /\ api_key = FALSE
    /\ plans_store = << >>
    /\ user_data_store = << >>
    /\ inflight = [h \in Handlers |-> Idle]
    /\ last_response = NoResponse
    /\ history = << >>

ParserContents ==
    {JsonTexts[d] : d \in 1..Len(JsonDocs)}
    \cup {"I cannot produce a plan.",
          "",
          "{\"squares\": {\"1\": ",
          "\n " \o JsonTexts[1] \o " \n",
          "json " \o JsonTexts[3],
          Fence \o JsonTexts[3] \o Fence,
          Fence \o JsonTexts[3],
          JsonTexts[3] \o "\n" \o Fence}

ParserTags == {"", "json", "python"}

ParserSeparators == {"", "\n"}

ParserContexts == {extract_business_context(r) : r \in RequestResponses \cup {<< >>}}

Fenced(content, tag, sep) == Fence \o tag \o sep \o content \o sep \o Fence

InitParser ==
    /\ SystemAtRest
    /\ arg \in [fn : {"parse"}, ai_content : ParserContents, tag : ParserTags,
                sep : ParserSeparators, business_context : ParserContexts]
    /\ res = [plain |-> Pending, fenced |-> Pending]

ParsePlain ==
    /\ res.plain = Pending
    /\ res' = [res EXCEPT !.plain = parse_ai_response_to_plan(arg.ai_content, arg.business_context)]
    /\ UNCHANGED <<sysvars, arg>>

ParseFenced ==
    /\ res.fenced = Pending
    /\ res' = [res EXCEPT !.fenced = parse_ai_response_to_plan(
                                        Fenced(arg.ai_content, arg.tag, arg.sep),
                                        arg.business_context)]
    /\ UNCHANGED <<sysvars, arg>>

NextParser == ParsePlain \/ ParseFenced

SpecParser == InitParser /\ [][NextParser]_vars

AnswerPool == {
    QuestionnaireResponse("industry", PyStr("Retail")),
    QuestionnaireResponse("marketing-budget", PyStr("Low")),
    QuestionnaireResponse("Industry", PyList(<<"Retail", "Food">>)),
    QuestionnaireResponse("primary-challenges", PyStr("Leads")),
    QuestionnaireResponse("biggest-challenge", PyList(<<"Time", "Money">>)),
    QuestionnaireResponse("Business-Goals", PyStr("Growth")),
    QuestionnaireResponse("business-model-size", PyStr("B2B")),
    QuestionnaireResponse("favourite-colour", PyStr("Blue")) }

AnswerLists == UNION {[1..n -> AnswerPool] : n \in 0..MaxResponses}

InitExtract ==
    /\ SystemAtRest
    /\ arg \in [fn : {"extract"}, responses : AnswerLists]
    /\ res = Pending

ApplyExtract ==
    /\ res = Pending
    /\ res' = extract_business_context(arg.responses)
    /\ UNCHANGED <<sysvars, arg>>

SpecExtract == InitExtract /\ [][ApplyExtract]_vars

\* GET /api/questions: expected_question_ids
expected_question_ids == [
    business_context |-> <<"industry", "business-model", "company-size", "years-in-operation",
                           "geographic-scope", "primary-challenges", "marketing-maturity",
                           "marketing-budget", "time-availability", "business-goals">>,
    square_1 |-> <<"target-demographics-age", "target-demographics-income", "target-location",
                   "customer-pain-points", "customer-goals", "customer-buying-behavior",
                   "current-customer-sources">>,
    square_2 |-> <<"core-problem-solved", "unique-advantages", "tangible-benefits",
                   "emotional-benefits", "proof-points">>,
    square_3 |-> <<"current-marketing-channels", "digital-marketing-preferences",
                   "content-creation-capacity">>,
    square_4 |-> <<"current-lead-generation", "lead-magnets", "website-optimization">>,
    square_5 |-> <<"follow-up-process", "email-marketing-current", "educational-content",
                   "relationship-timeline">>,
    square_6 |-> <<"sales-process", "common-objections", "pricing-strategy", "conversion-rate">>,
    square_7 |-> <<"delivery-method", "onboarding-process", "customer-support", "customer-feedback">>,
    square_8 |-> <<"repeat-business", "upsell-opportunities", "customer-retention",
                   "average-customer-value">>,
    square_9 |-> <<"current-referrals", "referral-process", "referral-incentives",
                   "customer-advocacy">> ]

Range(seq) == {seq[i] : i \in 1..Len(seq)}

ClassifierIds ==
    UNION {Range(expected_question_ids[k]) : k \in DOMAIN expected_question_ids}
    \cup {"feedback-retention", "Retention-Feedback", "RETENTION", "customer-feedback-retention",
          "advocacy-upsell", "Onboarding", "incentives", "objections-follow-up",
          "favourite-colour", "", "lead", "referral", "UPSELL-advocacy", "Pricing-Strategy"}

InitClassify ==
    /\ SystemAtRest
    /\ arg \in [fn : {"classify"}, question_id : ClassifierIds]
    /\ res = Pending

ApplyClassify ==
    /\ res = Pending
    /\ res' = [square |-> determine_square_from_question(arg.question_id)]
    /\ UNCHANGED <<sysvars, arg>>

SpecClassify == InitClassify /\ [][ApplyClassify]_vars

(***************************************************************************)
(* The prompt assembler as a function of the answers                       *)
(***************************************************************************)
\* the bullet character U+2022 that opens each response line
Bullet == "*"

\* f"{Bullet} {resp.question_id}: {resp.answer}"
ResponseLine(resp) == Bullet \o " " \o resp.question_id \o ": " \o Format(resp.answer)

\* the list of the membership test, compared with the identifier as given
BusinessContextIds == {"industry", "business-model", "company-size", "years-in-operation",
                       "geographic-scope", "primary-challenges", "marketing-maturity",
                       "marketing-budget", "time-availability", "business-goals"}

\* one iteration of the loop over responses
PromptStep(groups, resp) ==
    IF resp.question_id \in BusinessContextIds
    THEN [groups EXCEPT !.business_context_responses = Append(@, ResponseLine(resp))]
    ELSE LET square_num == determine_square_from_question(resp.question_id)
         IN  [groups EXCEPT !.responses_by_square =
                 IF square_num \in DOMAIN @
                 THEN [@ EXCEPT ![square_num] = Append(@, ResponseLine(resp))]
                 ELSE (square_num :> <<ResponseLine(resp)>>) @@ @]

RECURSIVE PromptLoop(_, _, _)
PromptLoop(groups, responses, i) ==
    IF i > Len(responses) THEN groups
    ELSE PromptLoop(PromptStep(groups, responses[i]), responses, i + 1)

\* business_context_responses and responses_by_square after the loop
PromptGroups(responses) ==
    PromptLoop([business_context_responses |-> << >>, responses_by_square |-> << >>],
               responses, 1)

\* sep.join(l)
RECURSIVE Join(_, _, _)
Join(sep, l, i) ==
    IF i > Len(l) THEN ""
    ELSE (IF i > 1 THEN sep ELSE "") \o l[i] \o Join(sep, l, i + 1)

\* the loop over sorted(responses_by_square.keys()), from square_num upwards
RECURSIVE SquareResponsesText(_, _)
SquareResponsesText(by_square, square_num) ==
    IF square_num > 9 THEN ""
    ELSE (IF square_num \in DOMAIN by_square
          THEN "\nSquare " \o NatToStr(square_num) \o " Responses:\n"
               \o Join("\n", by_square[square_num], 1)
          ELSE "")
         \o SquareResponsesText(by_square, square_num + 1)

\* the prompt up to the end of the questionnaire responses; the text that
\* follows in the source is the same for every request
create_marketing_plan_prompt(responses, business_context) ==
    "\n    Based on the comprehensive business information and questionnaire responses below, create a highly personalized marketing plan using the 9-square marketing framework:\n\n"
    \o "    BUSINESS CONTEXT:\n"
    \o "    - Industry: " \o Format(business_context.industry) \o "\n"
    \o "    - Business Model: " \o Format(business_context.business_model) \o "\n"
    \o "    - Company Size: " \o Format(business_context.company_size) \o "\n"
    \o "    - Years in Operation: " \o Format(business_context.years_in_operation) \o "\n"
    \o "    - Geographic Scope: " \o Format(business_context.geographic_scope) \o "\n"
    \o "    - Marketing Maturity: " \o Format(business_context.marketing_maturity) \o "\n"
    \o "    - Marketing Budget: " \o Format(business_context.marketing_budget) \o "\n"
    \o "    - Time Availability: " \o Format(business_context.time_availability) \o "\n"
    \o "    - Key Challenges: " \o Join(", ", business_context.challenges.l, 1) \o "\n"
    \o "    - Business Goals: " \o Join(", ", business_context.business_goals.l, 1) \o "\n\n"
    \o "    BUSINESS CONTEXT RESPONSES:\n    "
    \o Join("\n", PromptGroups(responses).business_context_responses, 1)
    \o "\n    \n    DETAILED QUESTIONNAIRE RESPONSES:\n    "
    \o SquareResponsesText(PromptGroups(responses).responses_by_square, 0)
    \o "\n    \n"

InitPrompt ==
    /\ SystemAtRest
    /\ arg \in [fn : {"prompt"}, responses : AnswerLists]
    /\ res = Pending

\* generate_claude_plan builds the prompt from the answers and their context
ApplyPrompt ==
    /\ res = Pending
    /\ res' = [business_context_responses |-> PromptGroups(arg.responses).business_context_responses,
               responses_by_square |-> PromptGroups(arg.responses).responses_by_square,
               prompt |-> create_marketing_plan_prompt(
                              arg.responses, extract_business_context(arg.responses))]
    /\ UNCHANGED <<sysvars, arg>>

SpecPrompt == InitPrompt /\ [][ApplyPrompt]_vars

(***************************************************************************)
(* Plan store with the delete operation of spec.md section 4.6             *)
(***************************************************************************)
\* delete(id): fails with NotFound when absent, removes the plan otherwise
delete_plan(user_id) ==
    /\ IF user_id \notin DOMAIN plans_store
       THEN /\ last_response' = [op |-> "delete", user_id |-> user_id, status |-> 404,
                                 body |-> "Marketing plan not found"]
            /\ UNCHANGED <<plans_store, history>>
       ELSE /\ plans_store' = [u \in (DOMAIN plans_store) \ {user_id} |-> plans_store[u]]
            /\ history' = [u \in (DOMAIN history) \ {user_id} |-> history[u]]
            /\ last_response' = [op |-> "delete", user_id |-> user_id, status |-> 200,
                                 body |-> "Marketing plan deleted"]
    /\ UNCHANGED <<api_key, user_data_store, inflight, arg, res>>

NextStore ==
    \/ Next
    \/ \E u \in UserIds : delete_plan(u)

SpecStore == Init /\ [][NextStore]_vars

(***************************************************************************)
(* Properties                                                              *)
(***************************************************************************)
GenerateReturned == last_response.op = "generate"

\* C1: whenever the API credential is absent or the external call fails,
\* generate-plan answers 200 with a plan whose business context is the one
\* extracted from the answers and whose squares 1..9 are the fallback
\* templates interpolated with it.
C1_FallbackOnFailure ==
    (GenerateReturned /\ last_response.external.kind \in {"no client", "failed"})
    => /\ last_response.status = 200
       /\ last_response.body.business_context = extract_business_context(last_response.responses)
       /\ last_response.body.squares
              = FallbackSquares(extract_business_context(last_response.responses))

\* C2: on a response text that does not decode as JSON the parser returns,
\* for every business context, a plan whose squares are the fallback
\* templates interpolated with that context, and never raises.
C2_ParserNeverRaises ==
    (res.plain # Pending /\ ~json_loads(CleanContent(arg.ai_content)).ok)
    => /\ res.plain.ok
       /\ res.plain.value.squares = FallbackSquares(arg.business_context)

\* C3: every plan returned by generate-plan and every plan in the plan
\* store has all nine square keys 1..9.
C3_AllNineSquares ==
    /\ (GenerateReturned /\ last_response.status = 200)
           => DOMAIN last_response.body.squares = 1..9
    /\ \A u \in DOMAIN plans_store : DOMAIN plans_store[u].squares = 1..9

Field(data, name) == data.items[CHOOSE j \in 1..Len(data.items) : data.items[j][1] = name][2]

Strs(list) == [i \in 1..Len(list.l) |-> list.l[i].s]

WellFormedData(data) ==
    /\ data.kind = "dict"
    /\ {data.items[j][1] : j \in 1..Len(data.items)}
           = {"title", "summary", "key_points", "recommendations"}
    /\ Field(data, "title").kind = "str"
    /\ Field(data, "summary").kind = "str"
    /\ IsStrList(Field(data, "key_points"))
    /\ IsStrList(Field(data, "recommendations"))

\* the text is valid JSON whose "squares" object has the keys "1".."9", each well formed
IsNineSquareText(text) ==
    LET p == json_loads(text)
    IN  /\ p.ok
        /\ p.value.kind = "dict"
        /\ \E j \in 1..Len(p.value.items) : p.value.items[j][1] = "squares"
        /\ LET sq == Field(p.value, "squares")
           IN  /\ sq.kind = "dict"
               /\ Len(sq.items) = 9
               /\ {sq.items[i][1] : i \in 1..9} = Range(NineKeys)
               /\ \A i \in 1..9 : WellFormedData(sq.items[i][2])

InputSquares(text) == Field(json_loads(text).value, "squares").items

SquareNumber(key) == CHOOSE n \in 1..9 : NineKeys[n] = key

\* C4: for a valid JSON response with well-formed squares "1".."9" the
\* parser returns a plan (whenever the business context is well typed) with
\* exactly the squares 1..9, each carrying the input's title, summary, key
\* points and recommendations unchanged and in the same order.
C4_RoundTrip ==
    (res.plain # Pending /\ IsNineSquareText(arg.ai_content))
    => /\ BusinessContext(arg.business_context).ok => res.plain.ok
       /\ res.plain.ok =>
            /\ DOMAIN res.plain.value.squares = 1..9
            /\ \A i \in 1..9 :
                 LET item == InputSquares(arg.ai_content)[i]
                     out  == res.plain.value.squares[SquareNumber(item[1])]
                 IN  /\ out.title = Field(item[2], "title").s
                     /\ out.summary = Field(item[2], "summary").s
                     /\ out.key_points = Strs(Field(item[2], "key_points"))
                     /\ out.recommendations = Strs(Field(item[2], "recommendations"))

C4_Witness ==
    /\ res.plain # Pending
    /\ IsNineSquareText(arg.ai_content)
    /\ InputSquares(arg.ai_content)[1][1] = "9"
    /\ res.plain.ok
    /\ res.plain.value.squares[9].title = "Title 1"
    /\ res.plain.value.squares[9].key_points = <<"point b1", "point a">>

BothParsed == res.plain # Pending /\ res.fenced # Pending

TenFields == ScalarFields \cup ListFields

CanonicalKey == [
    industry |-> "industry", business_model |-> "business-model",
    company_size |-> "company-size", challenges |-> "primary-challenges",
    years_in_operation |-> "years-in-operation", geographic_scope |-> "geographic-scope",
    marketing_maturity |-> "marketing-maturity", marketing_budget |-> "marketing-budget",
    time_availability |-> "time-availability", business_goals |-> "business-goals" ]

LegacyWord == [industry |-> "industry", business_model |-> "model",
               company_size |-> "size", challenges |-> "challenge"]

\* the identifier matches the field, exactly or through the legacy substring
Mentions(question_id, f) ==
    \/ lower(question_id) = CanonicalKey[f]
    \/ f \in DOMAIN LegacyWord /\ Contains(lower(question_id), LegacyWord[f])

Sentinel(f) == IF f \in ListFields THEN [kind |-> "list", l |-> << >>]
               ELSE [kind |-> "str", s |-> "Not specified"]

\* C6: the extracted record has all ten fields set, every field no answer
\* identifier matches holds its sentinel ("Not specified" or the empty
\* list), and an empty answer list gives the all-default record.
C6_DefaultsForUnmatched ==
    res # Pending
    => /\ DOMAIN res = TenFields
       /\ \A f \in TenFields :
            /\ res[f].kind \in {"str", "list"}
            /\ (\A i \in 1..Len(arg.responses) : ~Mentions(arg.responses[i].question_id, f))
                   => res[f] = Sentinel(f)
       /\ arg.responses = << >> => \A f \in TenFields : res[f] = Sentinel(f)

C6_Witness ==
    /\ res # Pending
    /\ Len(arg.responses) = 2
    /\ arg.responses[1].question_id = "favourite-colour"
    /\ arg.responses[2].question_id = "marketing-budget"
    /\ res.marketing_budget = [kind |-> "str", s |-> "Low"]
    /\ res.industry = Sentinel("industry")
    /\ res.business_goals = Sentinel("business_goals")

MatchingSquares(question_id) ==
    {n \in 1..9 : \E kw \in Range(SquareKeywords[n]) : Contains(lower(question_id), kw)}

C8_GetReturnsLatest ==
    last_response.op = "get"
    => /\ last_response.status = 404 <=> last_response.user_id \notin DOMAIN history
       /\ last_response.status = 200 <=> last_response.user_id \in DOMAIN history
       /\ last_response.status = 200 => last_response.body = history[last_response.user_id]

C8_Witness ==
    /\ last_response.op = "get"
    /\ last_response.status = 200
    /\ last_response.user_id = "u2"
    /\ DOMAIN last_response.body.squares = 1..9
    /\ last_response.body.squares[2].title = "Title 2"
    /\ "u1" \notin DOMAIN plans_store

\* C9: deleting an identifier that is not stored answers not-found and
\* leaves the store unchanged; deleting a stored identifier removes it and
\* nothing else, and a get that follows a delete of the same identifier
\* answers not-found.
C9_Delete ==
    [][\A u \in UserIds :
         /\ delete_plan(u) =>
              IF u \notin DOMAIN plans_store
              THEN last_response'.status = 404 /\ plans_store' = plans_store
              ELSE /\ last_response'.status = 200
                   /\ DOMAIN plans_store' = (DOMAIN plans_store) \ {u}
                   /\ \A v \in DOMAIN plans_store' : plans_store'[v] = plans_store[v]
         /\ (last_response.op = "delete" /\ last_response.user_id = u /\ get_marketing_plan(u))
              => last_response'.status = 404]_vars

C9_Witness ==
    /\ last_response.op = "delete"
    /\ last_response.status = 200
    /\ last_response.user_id = "u1"
    /\ "u1" \notin DOMAIN plans_store
    /\ "u2" \in DOMAIN plans_store

\* C10: a generate-plan request makes the external call at most once, and
\* when the call fails or its text does not decode it completes, without a
\* second call, with the fallback content.
C10_NoRetryFallback ==
    /\ \A h \in Handlers : inflight[h].pc = "calling" => inflight[h].calls <= 1
    /\ GenerateReturned =>
         /\ last_response.calls <= 1
         /\ (\/ last_response.external.kind = "failed"
             \/ /\ last_response.external.kind = "text"
                /\ ~json_loads(CleanContent(last_response.external.text)).ok)
            => /\ last_response.status = 200
               /\ last_response.body.squares
                      = FallbackSquares(extract_business_context(last_response.responses))

ExactKeys == {CanonicalKey[f] : f \in TenFields}

\* the identifier reaches the legacy branch that extends challenges
LegacyChallenge(question_id) ==
    /\ lower(question_id) \notin ExactKeys
    /\ ~Contains(lower(question_id), "industry")
    /\ ~Contains(lower(question_id), "model")
    /\ ~Contains(lower(question_id), "size")
    /\ Contains(lower(question_id), "challenge")

\* the list-valued field the identifier matches, "" when it matches none
ListFieldOf(question_id) ==
    IF lower(question_id) = "primary-challenges" \/ LegacyChallenge(question_id) THEN "challenges"
    ELSE IF lower(question_id) = "business-goals" THEN "business_goals"
    ELSE ""

Values(answer) == IF answer.kind = "list" THEN answer.l ELSE <<answer.s>>

\* the context after the first i answers, the result itself for the whole list
ContextAfter(i) == IF i = Len(arg.responses) THEN res
                   ELSE extract_business_context(SubSeq(arg.responses, 1, i))

\* C11: every answer matching a list-valued field appends its
\* values (a single value as one element) to those already collected.
C11_EveryMatchAppends ==
    res # Pending
    => \A i \in 1..Len(arg.responses) :
         LET f == ListFieldOf(arg.responses[i].question_id)
         IN  f # "" => ContextAfter(i)[f].l
                          = ContextAfter(i - 1)[f].l \o Values(arg.responses[i].answer)

HasKey(data, name) == \E j \in 1..Len(data.items) : data.items[j][1] = name

\* a sub-field of the square record is present with a value of the wrong type
WronglyTyped(data) ==
    \/ HasKey(data, "title") /\ Field(data, "title").kind # "str"
    \/ HasKey(data, "summary") /\ Field(data, "summary").kind # "str"
    \/ HasKey(data, "key_points") /\ ~IsStrList(Field(data, "key_points"))
    \/ HasKey(data, "recommendations") /\ ~IsStrList(Field(data, "recommendations"))

\* the decoded object lacks "squares", or "squares" is not an object, or a
\* key is not an integer, or a record is not an object or is wrongly typed
MissingOrMalformed(value) ==
    /\ value.kind = "dict"
    /\ \/ ~HasKey(value, "squares")
       \/ Field(value, "squares").kind # "dict"
       \/ \E i \in 1..Len(Field(value, "squares").items) :
            LET item == Field(value, "squares").items[i]
            IN  \/ ~int(item[1]).ok
                \/ item[2].kind # "dict"
                \/ WronglyTyped(item[2])

\* C12: when the text decodes as JSON but "squares" is absent or not an
\* object, a key is not an integer, or a square record is not an object or
\* has wrongly typed sub-fields, the parser does not raise and returns the
\* plan of the nine fallback templates.
C12_MalformedGivesFallback ==
    LET parsed_content == json_loads(CleanContent(arg.ai_content))
    IN  (/\ res.plain # Pending
         /\ parsed_content.ok
         /\ MissingOrMalformed(parsed_content.value))
        => /\ res.plain.ok
           /\ res.plain.value.squares = FallbackSquares(arg.business_context)

\* the text is valid JSON whose "squares" object has distinct keys among
\* "1".."9", each with a well-formed record
IsSubsetSquareText(text) ==
    LET p == json_loads(text)
    IN  /\ p.ok
        /\ p.value.kind = "dict"
        /\ HasKey(p.value, "squares")
        /\ LET sq == Field(p.value, "squares")
           IN  /\ sq.kind = "dict"
               /\ \A i \in 1..Len(sq.items) :
                    /\ sq.items[i][1] \in Range(NineKeys)
                    /\ WellFormedData(sq.items[i][2])
               /\ \A i, j \in 1..Len(sq.items) : sq.items[i][1] = sq.items[j][1] => i = j

\* C13: for a well-formed response whose "squares" object holds only a
\* subset S of the keys "1".."9", the parser returns a plan (whenever the
\* business context is well typed) with exactly the squares in S: absent
\* squares are not filled from the fallback templates.
C13_OnlyReturnedSquares ==
    (res.plain # Pending /\ IsSubsetSquareText(arg.ai_content))
    => /\ BusinessContext(arg.business_context).ok => res.plain.ok
       /\ res.plain.ok =>
            DOMAIN res.plain.value.squares
                = {SquareNumber(InputSquares(arg.ai_content)[i][1]) :
                       i \in 1..Len(InputSquares(arg.ai_content))}

C13_Witness ==
    /\ res.plain # Pending
    /\ IsSubsetSquareText(arg.ai_content)
    /\ Len(InputSquares(arg.ai_content)) = 2
    /\ res.plain.ok
    /\ DOMAIN res.plain.value.squares = {2, 5}
    /\ res.plain.value.squares[5].title = "Title 2"

\* the text is valid JSON whose "squares" object has distinct keys among
\* "1".."9", each with an object whose present sub-fields are well typed
IsPartialSquareText(text) ==
    LET p == json_loads(text)
    IN  /\ p.ok
        /\ p.value.kind = "dict"
        /\ HasKey(p.value, "squares")
        /\ LET sq == Field(p.value, "squares")
           IN  /\ sq.kind = "dict"
               /\ \A i \in 1..Len(sq.items) :
                    /\ sq.items[i][1] \in Range(NineKeys)
                    /\ sq.items[i][2].kind = "dict"
                    /\ ~WronglyTyped(sq.items[i][2])
               /\ \A i, j \in 1..Len(sq.items) : sq.items[i][1] = sq.items[j][1] => i = j

\* C14: for each square key n present in the response, the square of the
\* returned plan keeps every sub-field the response gives and substitutes
\* the missing ones: title "Square n", summary "Summary not available",
\* empty key points, empty recommendations; a missing sub-field does not
\* turn the whole plan into the fallback plan.
C14_MissingSubFieldDefaults ==
    (res.plain # Pending /\ IsPartialSquareText(arg.ai_content))
    => /\ BusinessContext(arg.business_context).ok => res.plain.ok
       /\ res.plain.ok =>
            /\ DOMAIN res.plain.value.squares
                 = {SquareNumber(InputSquares(arg.ai_content)[i][1]) :
                        i \in 1..Len(InputSquares(arg.ai_content))}
            /\ \A i \in 1..Len(InputSquares(arg.ai_content)) :
                 LET item == InputSquares(arg.ai_content)[i]
                     data == item[2]
                     out  == res.plain.value.squares[SquareNumber(item[1])]
                 IN  /\ out.title = IF HasKey(data, "title") THEN Field(data, "title").s
                                    ELSE "Square " \o item[1]
                     /\ out.summary = IF HasKey(data, "summary") THEN Field(data, "summary").s
                                      ELSE "Summary not available"
                     /\ out.key_points = IF HasKey(data, "key_points")
                                         THEN Strs(Field(data, "key_points")) ELSE << >>
                     /\ out.recommendations = IF HasKey(data, "recommendations")
                                              THEN Strs(Field(data, "recommendations")) ELSE << >>

C14_Witness ==
    /\ res.plain # Pending
    /\ IsPartialSquareText(arg.ai_content)
    /\ res.plain.ok
    /\ DOMAIN res.plain.value.squares = {3, 4}
    /\ res.plain.value.squares[3]
         = [title |-> "Only a title", summary |-> "Summary not available",
            key_points |-> << >>, recommendations |-> << >>]
    /\ res.plain.value.squares[4]
         = [title |-> "Square 4", summary |-> "Summary not available",
            key_points |-> <<"only points">>, recommendations |-> << >>]

\* C15: every square number of a plan the parser returns lies in 1..9,
\* whatever keys the "squares" object of the response has.
C15_SquareNumbersInRange ==
    (res.plain # Pending /\ res.plain.ok)
    => DOMAIN res.plain.value.squares \subseteq 1..9

\* the identifier is listed under square_k of the questions structure
ListedUnder(question_id, k) ==
    question_id \in Range(expected_question_ids["square_" \o NatToStr(k)])

\* C16: every identifier the questions structure lists under square_k is
\* classified by determine_square_from_question as square k.
C16_ListedIdsClassifiedAsListed ==
    res # Pending
    => \A k \in 1..9 : ListedUnder(arg.question_id, k) => res.square = k

\* the position of the marker in the prompt
IndexOf(s, sub) == CHOOSE i \in 1..Len(s) : SubSeq(s, i, i + Len(sub) - 1) = sub

\* the part of the prompt from the first marker up to the second
BusinessContextSection(prompt) ==
    SubSeq(prompt, IndexOf(prompt, "BUSINESS CONTEXT RESPONSES:"),
                   IndexOf(prompt, "DETAILED QUESTIONNAIRE RESPONSES:") - 1)

QuestionnaireSection(prompt) ==
    SubSeq(prompt, IndexOf(prompt, "DETAILED QUESTIONNAIRE RESPONSES:"), Len(prompt))

\* C17: every answer whose identifier, lower-cased, is one of the ten
\* canonical keys of the extractor is rendered in the business-context
\* section of the prompt and in no "Square n Responses" group.
C17_PromptAgreesWithExtractor ==
    res # Pending
    => \A i \in 1..Len(arg.responses) :
         lower(arg.responses[i].question_id) \in ExactKeys
         => /\ ResponseLine(arg.responses[i]) \in Range(res.business_context_responses)
            /\ Contains(BusinessContextSection(res.prompt), ResponseLine(arg.responses[i]))
            /\ \A n \in DOMAIN res.responses_by_square :
                 ResponseLine(arg.responses[i]) \notin Range(res.responses_by_square[n])
            /\ ~Contains(QuestionnaireSection(res.prompt), ResponseLine(arg.responses[i]))

\* the step leaves every plan stored under another identifier, and the
\* whole user-data store, as they were
OnlyEntryMayChange(user_id) ==
    /\ DOMAIN plans_store' \subseteq (DOMAIN plans_store) \cup {user_id}
    /\ \A u \in DOMAIN plans_store :
         u # user_id => u \in DOMAIN plans_store' /\ plans_store'[u] = plans_store[u]
    /\ user_data_store' = user_data_store

\* C18: a generate-plan request for an identifier changes at most the plan
\* stored under that identifier and never the user-data store; one that ends
\* in an error leaves the plan store unchanged; get-plan, get-user-data and
\* save-response change neither store.  The handler that took the step is
\* the one whose response last_response' holds: a step that changes the plan
\* store is a generate-plan answering 200, and it changes only the entry of
\* its identifier; a step that changes the user-data store is save-user-data.
C18_Frame ==
    [][ /\ plans_store' # plans_store
            => /\ last_response'.op = "generate"
               /\ last_response'.status = 200
               /\ OnlyEntryMayChange(last_response'.user_id)
        /\ user_data_store' # user_data_store
            => /\ last_response'.op = "save_user_data"
               /\ plans_store' = plans_store ]_vars

C18_Witness ==
    /\ DOMAIN plans_store = {"u1", "u2"}
    /\ plans_store["u1"] # plans_store["u2"]
    /\ "u1" \in DOMAIN user_data_store
    /\ last_response.op = "generate"
    /\ last_response.status = 200
    /\ \E h \in Handlers : inflight[h].pc = "calling"

\* the plans a generate-plan request can return, as the store holds them
ReturnablePlans ==
    UNION {LET business_context == extract_business_context(responses)
               plans == {generate_fallback_plan(business_context)}
                        \cup {AfterCall(outcome, business_context) : outcome \in ExternalOutcomes}
           IN  UNION {IF ai_plan.ok THEN {PlanDict(ai_plan.value)} ELSE {} : ai_plan \in plans}
           : responses \in RequestResponses}

\* C19: in every state of every interleaving of generate-plan and get-plan
\* requests, the plan stored under an identifier is one whole plan that a
\* generate-plan request returns, namely the one of the latest store write
\* for that identifier (in particular once no request is in flight); the
\* plan a generate-plan request has just returned is the one stored.
C19_StoreHoldsLastWholePlan ==
    /\ DOMAIN plans_store = DOMAIN history
    /\ \A user_id \in DOMAIN plans_store :
         /\ plans_store[user_id] \in ReturnablePlans
         /\ plans_store[user_id] = history[user_id]
    /\ (GenerateReturned /\ last_response.status = 200)
           => plans_store[last_response.user_id] = PlanDict(last_response.body)

\* a request for u1 has returned its plan while another one for u1 is in flight
C19_Witness ==
    /\ \E h \in Handlers : inflight[h].pc = "calling" /\ inflight[h].user_id = "u1"
    /\ GenerateReturned
    /\ last_response.status = 200
    /\ last_response.user_id = "u1"
    /\ last_response.external.kind = "text"
    /\ DOMAIN plans_store["u1"].squares = {2, 5}
    /\ plans_store["u1"] = history["u1"]

====
